---- MODULE Spec2Model ----
(***************************************************************************)
(* Model of nikkictl/beer-testing (src/main.go): a Cart of Cases, a        *)
(* Subscription whose timer goroutine fires the held cart into an          *)
(* unbuffered message channel, and an OrderHandler goroutine that appends  *)
(* every *Cart it receives to ProcessedOrders.                             *)
(*                                                                         *)
(* Three goroutines are modelled: "timer" runs startSubscriptionTimer,     *)
(* "handler" runs startOrderHandler, and "main" is the goroutine that owns *)
(* the channel and the context (the test functions of the repository play  *)
(* this part): it starts the other two, calls the accessors, adds cases,   *)
(* sends and receives on the channel, cancels the context and closes the   *)
(* channel.  The channel has one producer and one consumer, as in the      *)
(* tests and the wiring the repository describes: main sends only while no *)
(* timer runs and receives only while no handler runs.  Goroutines         *)
(* interleave one statement at a time.  Time is abstracted: the ticker may *)
(* deliver a tick whenever its one-slot channel is empty.                  *)
(***************************************************************************)
EXTENDS Integers, Sequences, FiniteSets, TLC

\* ------------------------------------------------------------------ bounds
\* Messages (ticks delivered plus sends begun by main) in one behaviour.
MaxMsgs == 3
\* Calls main makes to the accessors and to AddCase in one behaviour.
MaxCalls == 1
\* Cases added to the carts the tests of Cart build, all together.
MaxCases == 3

\* ------------------------------------------------- values of the program
\* Cart objects on the heap: cart1 and cart2 of TestStartSubscriptionTimer.
\* Reference 0 is the nil *Cart.
CartRefs == {1, 2}
NilCart == 0

\* The two Case fixtures the tests put into carts.
CaseDuvel == [Count |-> 4, Beer |-> "Duvel Tripel Hop", Price |-> 14]
CaseLabatt == [Count |-> 30, Beer |-> "Labatt Blue Light", Price |-> 24]
FixtureCases == {CaseDuvel, CaseLabatt}

\* The nil *Case: a pointer to no case, with no fields to read.
NilCase == [nil |-> TRUE]

\* Cases as FixtureCase builds them: the two fixtures, the case with a
\* negative price of TestSubtotalSuite ("Negative"), and a case that has
\* the price of CaseDuvel with the count and the beer of CaseLabatt.
CaseItems ==
    {CaseDuvel, CaseLabatt,
     [Count |-> 4, Beer |-> "Duvel Tripel Hop", Price |-> -14],
     [Count |-> 30, Beer |-> "Labatt Blue Light", Price |-> 14]}

\* The values AddCase can be given for its parameter beerCase *Case: a
\* pointer to a case, or the nil pointer (no test passes nil; AddCase
\* appends it like any other pointer).
CasePointers == CaseItems \cup {NilCase}

\* Fire intervals, in seconds, that SetInterval is given: one and two
\* seconds, and the zero Duration, for which time.NewTicker panics.
Intervals == {0, 1, 2}

\* A value held by interface{} / returned by an accessor: its dynamic type
\* and the pointer or number it carries.
NoValue == [type |-> "none", ref |-> 0]
CartValue(c) == [type |-> "Cart", ref |-> c]
CaseValue == [type |-> "Case", ref |-> 1]
DurationValue(d) == [type |-> "Duration", ref |-> d]

\* A channel made with make(chan interface{}, 1).
BufferedChanCap == 0 + 1

\* make(chan interface{}): the capacity of messageChan.
ChanCap == 0

Goroutines == {"timer", "handler", "main"}
Callers == {"timer", "main"}
Senders == {"timer", "main"}
Receivers == {"handler", "main"}

VARIABLES
    heap,            \* Cart.Cases of every cart object
    cart,            \* Subscription.cart
    interval,        \* Subscription.interval
    mu,              \* Subscription.mu: "free" or the goroutine holding it
    chbuf,           \* messageChan: buffered values
    closed,          \* messageChan: closed
    ctxDone,         \* ctx.Done() is closed
    ticker,          \* the time.Ticker of the timer loop
    ProcessedOrders, \* OrderHandler.ProcessedOrders
    pc,              \* the statement each goroutine is at
    loc,             \* the value each goroutine has in hand
    panicked,        \* an unrecovered panic has ended the process
    \* history variables
    nTicks,          \* ticks delivered by the ticker
    nMainSends,      \* sends begun by main
    nCalls,          \* accessor and AddCase calls begun by main
    sent,            \* completed sends, in order: [from, msg]
    nRecv,           \* completed receives of a value
    nHandled,        \* messages the handler has finished with
    nInvalid,        \* times the handler took the invalid-message branch
    placed,          \* what c.Cases read of each processed order when placed
    hist,            \* what the claims need of GetCart, SetCart and the select
    call             \* the latest call of a function of main.go made by a test

vars == <<heap, cart, interval, mu, chbuf, closed, ctxDone, ticker,
          ProcessedOrders, pc, loc, panicked, nTicks, nMainSends, nCalls, sent,
          nRecv, nHandled, nInvalid, placed, hist, call>>

\* groups for UNCHANGED
subVars == <<cart, interval>>
chanVars == <<chbuf, closed>>
ordVars == <<ProcessedOrders, nHandled, nInvalid, placed>>
msgVars == <<sent, nRecv>>
budgetVars == <<nTicks, nMainSends, nCalls>>

\* ------------------------------------------------------------ Cart (pure)
\* NewCart: a cart with no cases.
NewCart == <<>>

\* An AddCase that puts the new case first.
AddCaseFirst(cases, beerCase) == <<beerCase>> \o cases

\* Cart.AddCase: c.Cases = append(c.Cases, beerCase).
AddCase(cases, beerCase) == Append(cases, beerCase)

\* Cart.Subtotal, the loop: subtotal += beerCase.Price for each case in
\* insertion order; reading the Price of a nil *Case panics.
RECURSIVE SubtotalFrom(_, _)
SubtotalFrom(cases, subtotal) ==
    IF cases = <<>> THEN [panic |-> FALSE, subtotal |-> subtotal]
    ELSE IF Head(cases) = NilCase THEN [panic |-> TRUE, subtotal |-> 0]
    ELSE SubtotalFrom(Tail(cases), subtotal + Head(cases).Price)

\* Cart.Subtotal: var subtotal float64; the loop; return subtotal.
Subtotal(cases) == SubtotalFrom(cases, 0)

\* --------------------------------------------------------- OrderHandler
\* A type assertion that fails for the nil *Cart.
IsCartNotNil(msg) == msg.type = "Cart" /\ msg.ref # NilCart

\* msg.(*Cart): the type assertion succeeds for every value whose dynamic
\* type is *Cart, the nil pointer included.
IsCart(msg) == msg.type = "Cart"

\* A PlaceOrder that forgets the append.
PlaceOrderLost(orders, c) == [orders |-> orders, err |-> "nil"]

\* A PlaceOrder that puts the newest order first.
PlaceOrderFirst(orders, c) == [orders |-> <<c>> \o orders, err |-> "nil"]

\* OrderHandler.PlaceOrder: appends the cart and returns a nil error.
PlaceOrder(orders, c) == [orders |-> Append(orders, c), err |-> "nil"]

\* ------------------------------------------------------- ProcessPayment
\* error values: the nil error, and an error with its message; an error made
\* by fmt.Errorf carries the format and the decimal digits that %d printed.
NoError == [text |-> "<nil>", digits |-> <<>>]
TransportErrors ==
    {[text |-> "dial tcp: connection refused", digits |-> <<>>]}
ReadErrors == {[text |-> "unexpected EOF", digits |-> <<>>]}

\* []byte values: the nil slice, and a slice holding bytes (maybe none).
NilBytes == [nil |-> TRUE, bytes |-> <<>>]
Bytes(b) == [nil |-> FALSE, bytes |-> b]

\* %d of a non-negative int: its decimal digits, most significant first.
RECURSIVE Itoa(_)
Itoa(n) == IF n < 10 THEN <<n>> ELSE Append(Itoa(n \div 10), n % 10)

\* fmt.Errorf("payment server error: %d", code)
Errorf(format, code) == [text |-> format, digits |-> Itoa(code)]

\* What http.Post and the reading of the response body can come to: Post
\* fails (err), or answers with StatusCode and a Body of which ReadAll gets
\* the bytes `got` and then the end of the body or a read error (readErr).
StatusCodes == {200, 304, 399, 400, 404, 500}
Bodies == {<<>>, <<79, 75>>}
Posts ==
    {[err |-> e, StatusCode |-> 0, Body |-> <<>>, got |-> <<>>,
      readErr |-> NoError] : e \in TransportErrors}
    \cup {[err |-> NoError, StatusCode |-> code, Body |-> b, got |-> b,
           readErr |-> NoError] : code \in StatusCodes, b \in Bodies}
    \cup UNION {{[err |-> NoError, StatusCode |-> code, Body |-> b,
                  got |-> SubSeq(b, 1, n), readErr |-> e] :
                    code \in StatusCodes, n \in 0..Len(b), e \in ReadErrors} :
                 b \in Bodies}

\* ioutil.ReadAll(resp.Body): the bytes read, in a non-nil slice, and the
\* read error if there was one.
ReadAll(post) == [body |-> Bytes(post.got), err |-> post.readErr]

\* A ProcessPayment that lets status 400 pass as a success.
ProcessPaymentAbove400(post) ==
    IF post.err # NoError THEN [body |-> NilBytes, err |-> post.err]
    ELSE IF post.StatusCode > 400
    THEN [body |-> NilBytes,
          err |-> Errorf("payment server error: %d", post.StatusCode)]
    ELSE ReadAll(post)

\* ProcessPayment, given what the exchange with the payment server comes to:
\* if err != nil { return nil, err }; if resp.StatusCode >= 400 { return
\* nil, fmt.Errorf(...) }; return ioutil.ReadAll(resp.Body).
ProcessPayment(post) ==
    IF post.err # NoError THEN [body |-> NilBytes, err |-> post.err]
    ELSE IF post.StatusCode >= 400
    THEN [body |-> NilBytes,
          err |-> Errorf("payment server error: %d", post.StatusCode)]
    ELSE ReadAll(post)

\* ---------------------------------------------------------------- Init
\* No call of a function of main.go has been made by a test yet.
NoCall == [op |-> "none"]

\* hist.lastRead: Subscription.cart when the timer's GetCart in progress read
\*   it (nil once the value read has been sent); hist.nReads: reads so far;
\* hist.setAt, hist.setVal: the receives completed when the latest SetCart
\*   assigned, and the cart it assigned (setAt is -1 before any SetCart);
\* hist.doneTaken: the timer loop's select has taken the ctx.Done() case.
InitHist == [lastRead |-> NilCart, nReads |-> 0, setAt |-> -1,
             setVal |-> NilCart, doneTaken |-> FALSE]

Init ==
    /\ heap = [c \in CartRefs |-> IF c = 1 THEN <<CaseDuvel>> ELSE <<CaseLabatt>>]
    /\ cart = 1
    /\ interval = 1
    /\ mu = "free"
    /\ chbuf = <<>>
    /\ closed = FALSE
    /\ ctxDone = FALSE
    /\ ticker = [period |-> 0, ready |-> FALSE, stopped |-> FALSE]
    /\ ProcessedOrders = <<>>
    /\ pc = [g \in Goroutines |-> IF g = "main" THEN "ready" ELSE "idle"]
    /\ loc = [g \in Goroutines |-> NoValue]
    /\ panicked = FALSE
    /\ nTicks = 0
    /\ nMainSends = 0
    /\ nCalls = 0
    /\ sent = <<>>
    /\ nRecv = 0
    /\ nHandled = 0
    /\ nInvalid = 0
    /\ placed = <<>>
    /\ hist = InitHist
    /\ call = NoCall

\* ------------------------------------------------------- helper updates
Goto(g, label) == pc' = [pc EXCEPT ![g] = label]
Hold(g, v) == loc' = [loc EXCEPT ![g] = v]

\* Where a goroutine continues after an accessor returns.
AfterCall(g) == IF g = "timer" THEN "newTicker" ELSE "ready"
AfterGetCart(g) == IF g = "timer" THEN "send" ELSE "ready"
\* Where a goroutine continues after its channel operation completes.
AfterSend(g) == IF g = "timer" THEN "select" ELSE "ready"
AfterRecv(g) == IF g = "handler" THEN "handle" ELSE "ready"

\* --------------------------------------------------------- Subscription
\* A GetCart that returns without unlocking the mutex.
GetCartKeepsLock(g) ==
    /\ ~panicked
    /\ \/ /\ pc[g] = "GetCart.Lock"
          /\ mu = "free"
          /\ mu' = g
          /\ Goto(g, "GetCart.return")
          /\ UNCHANGED <<loc, hist>>
       \/ /\ pc[g] = "GetCart.return"
          /\ Hold(g, CartValue(cart))
          /\ hist' = IF g = "timer"
                     THEN [hist EXCEPT !.lastRead = cart, !.nReads = @ + 1]
                     ELSE hist
          /\ Goto(g, "GetCart.Unlock")
          /\ UNCHANGED mu
       \/ /\ pc[g] = "GetCart.Unlock"
          /\ Goto(g, AfterGetCart(g))
          /\ loc' = IF g = "timer" THEN loc ELSE [loc EXCEPT ![g] = NoValue]
          /\ UNCHANGED <<mu, hist>>
    /\ UNCHANGED <<call, heap, subVars, chanVars, ctxDone, ticker, ordVars,
                   msgVars, budgetVars, panicked>>

\* A GetCart that neither locks nor unlocks the mutex.
GetCartUnlocked(g) ==
    /\ ~panicked
    /\ \/ /\ pc[g] = "GetCart.Lock"
          /\ Goto(g, "GetCart.return")
          /\ UNCHANGED <<loc, hist>>
       \/ /\ pc[g] = "GetCart.return"
          /\ Hold(g, CartValue(cart))
          /\ hist' = IF g = "timer"
                     THEN [hist EXCEPT !.lastRead = cart, !.nReads = @ + 1]
                     ELSE hist
          /\ Goto(g, "GetCart.Unlock")
       \/ /\ pc[g] = "GetCart.Unlock"
          /\ Goto(g, AfterGetCart(g))
          /\ loc' = IF g = "timer" THEN loc ELSE [loc EXCEPT ![g] = NoValue]
          /\ UNCHANGED hist
    /\ UNCHANGED <<call, heap, subVars, mu, chanVars, ctxDone, ticker, ordVars,
                   msgVars, budgetVars, panicked>>

\* GetCart: s.mu.Lock(); defer s.mu.Unlock(); return s.cart
GetCart(g) ==
    /\ ~panicked
    /\ \/ /\ pc[g] = "GetCart.Lock"
          /\ mu = "free"
          /\ mu' = g
          /\ Goto(g, "GetCart.return")
          /\ UNCHANGED <<loc, hist>>
       \/ /\ pc[g] = "GetCart.return"
          /\ Hold(g, CartValue(cart))
          /\ hist' = IF g = "timer"
                     THEN [hist EXCEPT !.lastRead = cart, !.nReads = @ + 1]
                     ELSE hist
          /\ Goto(g, "GetCart.Unlock")
          /\ UNCHANGED mu
       \/ /\ pc[g] = "GetCart.Unlock"
          /\ mu' = "free"
          /\ Goto(g, AfterGetCart(g))
          /\ loc' = IF g = "timer" THEN loc ELSE [loc EXCEPT ![g] = NoValue]
          /\ UNCHANGED hist
    /\ UNCHANGED <<call, heap, subVars, chanVars, ctxDone, ticker, ordVars, msgVars,
                   budgetVars, panicked>>

\* SetCart: s.mu.Lock(); defer s.mu.Unlock(); s.cart = c
SetCart(g) ==
    /\ ~panicked
    /\ \/ /\ pc[g] = "SetCart.Lock"
          /\ mu = "free"
          /\ mu' = g
          /\ Goto(g, "SetCart.assign")
          /\ UNCHANGED <<cart, loc, hist>>
       \/ /\ pc[g] = "SetCart.assign"
          /\ cart' = loc[g].ref
          /\ hist' = [hist EXCEPT !.setAt = nRecv, !.setVal = loc[g].ref]
          /\ Goto(g, "SetCart.Unlock")
          /\ UNCHANGED <<mu, loc>>
       \/ /\ pc[g] = "SetCart.Unlock"
          /\ mu' = "free"
          /\ Goto(g, "ready")
          /\ Hold(g, NoValue)
          /\ UNCHANGED <<cart, hist>>
    /\ UNCHANGED <<call, heap, interval, chanVars, ctxDone, ticker, ordVars, msgVars,
                   budgetVars, panicked>>

\* GetInterval: s.mu.Lock(); defer s.mu.Unlock(); return s.interval
GetInterval(g) ==
    /\ ~panicked
    /\ \/ /\ pc[g] = "GetInterval.Lock"
          /\ mu = "free"
          /\ mu' = g
          /\ Goto(g, "GetInterval.return")
          /\ UNCHANGED loc
       \/ /\ pc[g] = "GetInterval.return"
          /\ Hold(g, DurationValue(interval))
          /\ Goto(g, "GetInterval.Unlock")
          /\ UNCHANGED mu
       \/ /\ pc[g] = "GetInterval.Unlock"
          /\ mu' = "free"
          /\ Goto(g, AfterCall(g))
          /\ loc' = IF g = "timer" THEN loc ELSE [loc EXCEPT ![g] = NoValue]
    /\ UNCHANGED <<call, heap, subVars, chanVars, ctxDone, ticker, ordVars, msgVars,
                   budgetVars, panicked, hist>>

\* SetInterval: s.mu.Lock(); defer s.mu.Unlock(); s.interval = t
SetInterval(g) ==
    /\ ~panicked
    /\ \/ /\ pc[g] = "SetInterval.Lock"
          /\ mu = "free"
          /\ mu' = g
          /\ Goto(g, "SetInterval.assign")
          /\ UNCHANGED <<interval, loc>>
       \/ /\ pc[g] = "SetInterval.assign"
          /\ interval' = loc[g].ref
          /\ Goto(g, "SetInterval.Unlock")
          /\ UNCHANGED <<mu, loc>>
       \/ /\ pc[g] = "SetInterval.Unlock"
          /\ mu' = "free"
          /\ Goto(g, "ready")
          /\ Hold(g, NoValue)
          /\ UNCHANGED interval
    /\ UNCHANGED <<call, heap, cart, chanVars, ctxDone, ticker, ordVars, msgVars,
                   budgetVars, panicked, hist>>

\* ------------------------------------------------ the timer loop's steps
\* ticker := time.NewTicker(s.GetInterval()), once GetInterval has returned;
\* time.NewTicker panics ("non-positive interval for NewTicker") when the
\* duration is zero or negative, and the panic ends the process.
NewTicker ==
    /\ ~panicked
    /\ pc["timer"] = "newTicker"
    /\ IF loc["timer"].ref <= 0
       THEN /\ panicked' = TRUE
            /\ UNCHANGED <<ticker, pc, loc>>
       ELSE /\ ticker' = [period |-> loc["timer"].ref, ready |-> FALSE,
                          stopped |-> FALSE]
            /\ Goto("timer", "select")
            /\ Hold("timer", NoValue)
            /\ UNCHANGED panicked
    /\ UNCHANGED <<call, heap, subVars, mu, chanVars, ctxDone, ordVars, msgVars,
                   budgetVars, hist>>

\* The runtime delivers a tick into ticker.C (one slot; a tick that finds
\* the slot full is dropped).
Tick ==
    /\ ~panicked
    /\ ticker.period > 0
    /\ ~ticker.stopped
    /\ ~ticker.ready
    /\ nTicks + nMainSends < MaxMsgs
    /\ ticker' = [ticker EXCEPT !.ready = TRUE]
    /\ nTicks' = nTicks + 1
    /\ UNCHANGED <<call, heap, subVars, mu, chanVars, ctxDone, ordVars, msgVars,
                   nMainSends, nCalls, pc, loc, panicked, hist>>

\* A ctx.Done() case that only leaves the select (break) and loops on.
SelectDoneBreak ==
    /\ ~panicked
    /\ pc["timer"] = "select"
    /\ ctxDone
    /\ hist' = [hist EXCEPT !.doneTaken = TRUE]
    /\ UNCHANGED <<call, heap, subVars, mu, chanVars, ctxDone, ticker, ordVars,
                   msgVars, budgetVars, pc, loc, panicked>>

\* select, case <-ctx.Done(): return (the deferred ticker.Stop() runs).
SelectDone ==
    /\ ~panicked
    /\ pc["timer"] = "select"
    /\ ctxDone
    /\ Goto("timer", "done")
    /\ ticker' = [ticker EXCEPT !.stopped = TRUE]
    /\ hist' = [hist EXCEPT !.doneTaken = TRUE]
    /\ UNCHANGED <<call, heap, subVars, mu, chanVars, ctxDone, ordVars, msgVars,
                   budgetVars, loc, panicked>>

\* A tick case that takes the tick and goes round the loop without sending.
SelectTickSkip ==
    /\ ~panicked
    /\ pc["timer"] = "select"
    /\ ticker.ready
    /\ ticker' = [ticker EXCEPT !.ready = FALSE]
    /\ UNCHANGED <<call, heap, subVars, mu, chanVars, ctxDone, ordVars, msgVars,
                   budgetVars, pc, loc, panicked, hist>>

\* A tick case that resets the ticker to the interval the field holds now.
SelectTickReset ==
    /\ ~panicked
    /\ pc["timer"] = "select"
    /\ ticker.ready
    /\ ticker' = [ticker EXCEPT !.ready = FALSE, !.period = interval]
    /\ Goto("timer", "GetCart.Lock")
    /\ UNCHANGED <<call, heap, subVars, mu, chanVars, ctxDone, ordVars, msgVars,
                   budgetVars, loc, panicked, hist>>

\* select, case <-ticker.C: the tick is taken and s.GetCart() is called.
\* When both cases are ready the runtime picks either.
SelectTick ==
    /\ ~panicked
    /\ pc["timer"] = "select"
    /\ ticker.ready
    /\ ticker' = [ticker EXCEPT !.ready = FALSE]
    /\ Goto("timer", "GetCart.Lock")
    /\ UNCHANGED <<call, heap, subVars, mu, chanVars, ctxDone, ordVars, msgVars,
                   budgetVars, loc, panicked, hist>>

\* ------------------------------------------------------ the channel
\* ch <- v by goroutine g, which is at its send statement holding v.
\* A send on a closed channel panics; otherwise the value goes to a waiting
\* receiver, or into the buffer when there is room; otherwise g stays blocked.
Send(g) ==
    /\ ~panicked
    /\ pc[g] = "send"
    /\ IF closed
       THEN /\ panicked' = TRUE
            /\ UNCHANGED <<pc, loc, chbuf, msgVars, hist>>
       ELSE IF \E r \in Receivers : pc[r] = "recv"
       THEN /\ \E r \in Receivers :
                 /\ pc[r] = "recv"
                 /\ pc' = [pc EXCEPT ![g] = AfterSend(g), ![r] = AfterRecv(r)]
                 /\ loc' = [loc EXCEPT ![g] = NoValue,
                                       ![r] = IF r = "handler" THEN loc[g] ELSE NoValue]
            /\ sent' = Append(sent, [from |-> g, msg |-> loc[g]])
            /\ nRecv' = nRecv + 1
            /\ hist' = [hist EXCEPT !.lastRead = NilCart]
            /\ UNCHANGED <<chbuf, panicked>>
       ELSE /\ Len(chbuf) < ChanCap
            /\ chbuf' = Append(chbuf, loc[g])
            /\ Goto(g, AfterSend(g))
            /\ Hold(g, NoValue)
            /\ sent' = Append(sent, [from |-> g, msg |-> loc[g]])
            /\ hist' = [hist EXCEPT !.lastRead = NilCart]
            /\ UNCHANGED <<nRecv, panicked>>
    /\ UNCHANGED <<call, heap, subVars, mu, closed, ctxDone, ticker, ordVars,
                   budgetVars>>

\* A receive that never learns that the channel is closed.
RecvBlindToClose(g) ==
    /\ ~panicked
    /\ pc[g] = "recv"
    /\ chbuf # <<>>
    /\ chbuf' = Tail(chbuf)
    /\ Goto(g, AfterRecv(g))
    /\ Hold(g, IF g = "handler" THEN Head(chbuf) ELSE NoValue)
    /\ nRecv' = nRecv + 1
    /\ UNCHANGED <<call, heap, subVars, mu, closed, ctxDone, ticker, ordVars, sent,
                   budgetVars, panicked, hist>>

\* msg, ok := <-ch by goroutine g, which is at its receive statement, when no
\* sender hands it a value: it takes a buffered value, or learns that the
\* channel is closed; otherwise it stays blocked.
Recv(g) ==
    /\ ~panicked
    /\ pc[g] = "recv"
    /\ IF chbuf # <<>>
       THEN /\ chbuf' = Tail(chbuf)
            /\ Goto(g, AfterRecv(g))
            /\ Hold(g, IF g = "handler" THEN Head(chbuf) ELSE NoValue)
            /\ nRecv' = nRecv + 1
       ELSE /\ closed
            /\ Goto(g, IF g = "handler" THEN "done" ELSE "ready")
            /\ UNCHANGED <<chbuf, loc, nRecv>>
    /\ UNCHANGED <<call, heap, subVars, mu, closed, ctxDone, ticker, ordVars, sent,
                   budgetVars, panicked, hist>>

\* ------------------------------------------- the order handler's loop body
\* c.Cases read through the *Cart c: the cases of the cart it points to;
\* through the nil pointer the read panics and gives no cases.
CasesOf(c) ==
    IF c = NilCart THEN [panic |-> TRUE, cases |-> <<>>]
    ELSE [panic |-> FALSE, cases |-> heap[c]]

\* A loop body that returns after logging an invalid message.
HandleMsgReturnOnInvalid ==
    /\ ~panicked
    /\ pc["handler"] = "handle"
    /\ IF IsCart(loc["handler"])
       THEN LET res == PlaceOrder(ProcessedOrders, loc["handler"].ref)
            IN  /\ ProcessedOrders' = res.orders
                /\ placed' = Append(placed, CasesOf(loc["handler"].ref))
                /\ Goto("handler", "recv")
                /\ UNCHANGED nInvalid
       ELSE /\ nInvalid' = nInvalid + 1
            /\ Goto("handler", "done")
            /\ UNCHANGED <<ProcessedOrders, placed>>
    /\ nHandled' = nHandled + 1
    /\ Hold("handler", NoValue)
    /\ UNCHANGED <<call, heap, subVars, mu, chanVars, ctxDone, ticker, msgVars,
                   budgetVars, panicked, hist>>

\* cart, ok := msg.(*Cart); if ok { PlaceOrder ...; continue }; log invalid.
HandleMsg ==
    /\ ~panicked
    /\ pc["handler"] = "handle"
    /\ IF IsCart(loc["handler"])
       THEN LET res == PlaceOrder(ProcessedOrders, loc["handler"].ref)
            IN  /\ ProcessedOrders' = res.orders
                /\ placed' = IF Len(res.orders) > Len(ProcessedOrders)
                             THEN Append(placed, CasesOf(loc["handler"].ref))
                             ELSE placed
                /\ UNCHANGED nInvalid   \* err # nil or not: logged, continue
       ELSE /\ nInvalid' = nInvalid + 1
            /\ UNCHANGED <<ProcessedOrders, placed>>
    /\ nHandled' = nHandled + 1
    /\ Goto("handler", "recv")
    /\ Hold("handler", NoValue)
    /\ UNCHANGED <<call, heap, subVars, mu, chanVars, ctxDone, ticker, msgVars,
                   budgetVars, panicked, hist>>

\* ------------------------------------------------- the main goroutine
\* go subscription.startSubscriptionTimer(ctx); the timer is the channel's
\* only producer, so main starts it only if it has not sent itself.
GoSubscriptionTimer ==
    /\ ~panicked
    /\ pc["main"] = "ready"
    /\ pc["timer"] = "idle"
    /\ nMainSends = 0
    /\ ~closed
    /\ Goto("timer", "GetInterval.Lock")
    /\ UNCHANGED <<call, heap, subVars, mu, chanVars, ctxDone, ticker, ordVars,
                   msgVars, budgetVars, loc, panicked, hist>>

\* go handler.startOrderHandler(ctx); the handler is the channel's only
\* consumer, so main starts it only if it has not received itself.
GoOrderHandler ==
    /\ ~panicked
    /\ pc["main"] = "ready"
    /\ pc["handler"] = "idle"
    /\ nRecv = 0
    /\ Goto("handler", "recv")
    /\ UNCHANGED <<call, heap, subVars, mu, chanVars, ctxDone, ticker, ordVars,
                   msgVars, budgetVars, loc, panicked, hist>>

\* main calls one of the Subscription's accessors.
CallAccessor ==
    /\ ~panicked
    /\ pc["main"] = "ready"
    /\ nCalls < MaxCalls
    /\ nCalls' = nCalls + 1
    /\ \/ /\ Goto("main", "GetCart.Lock")
          /\ UNCHANGED loc
       \/ /\ Goto("main", "GetInterval.Lock")
          /\ UNCHANGED loc
       \/ \E c \in CartRefs \cup {NilCart} :
            /\ Goto("main", "SetCart.Lock")
            /\ Hold("main", CartValue(c))
       \/ \E d \in Intervals :
            /\ Goto("main", "SetInterval.Lock")
            /\ Hold("main", DurationValue(d))
    /\ UNCHANGED <<call, heap, subVars, mu, chanVars, ctxDone, ticker, ordVars,
                   msgVars, nTicks, nMainSends, panicked, hist>>

\* main calls c.AddCase(beerCase) on one of the carts.
CallAddCase ==
    /\ ~panicked
    /\ pc["main"] = "ready"
    /\ nCalls < MaxCalls
    /\ nCalls' = nCalls + 1
    /\ \E c \in CartRefs, k \in FixtureCases :
         heap' = [heap EXCEPT ![c] = AddCase(heap[c], k)]
    /\ UNCHANGED <<call, subVars, mu, chanVars, ctxDone, ticker, ordVars,
                   msgVars, nTicks, nMainSends, pc, loc, panicked, hist>>

\* main begins messageChan <- v, v a *Cart or a *Case (it is the producer
\* when no timer runs).
MainSend ==
    /\ ~panicked
    /\ pc["main"] = "ready"
    /\ pc["timer"] = "idle"
    /\ ~closed
    /\ nTicks + nMainSends < MaxMsgs
    /\ \E v \in {CartValue(c) : c \in CartRefs} \cup {CaseValue} :
         Hold("main", v)
    /\ Goto("main", "send")
    /\ nMainSends' = nMainSends + 1
    /\ UNCHANGED <<call, heap, subVars, mu, chanVars, ctxDone, ticker, ordVars,
                   msgVars, nTicks, nCalls, panicked, hist>>

\* main begins <-messageChan (it is the consumer when no handler runs).
MainRecv ==
    /\ ~panicked
    /\ pc["main"] = "ready"
    /\ pc["handler"] = "idle"
    /\ pc["timer"] # "idle"
    /\ Goto("main", "recv")
    /\ UNCHANGED <<call, heap, subVars, mu, chanVars, ctxDone, ticker, ordVars,
                   msgVars, budgetVars, loc, panicked, hist>>

\* main calls the context's cancel function.
Cancel ==
    /\ ~panicked
    /\ pc["main"] = "ready"
    /\ ~ctxDone
    /\ ctxDone' = TRUE
    /\ UNCHANGED <<call, heap, subVars, mu, chanVars, ticker, ordVars, msgVars,
                   budgetVars, pc, loc, panicked, hist>>

\* main calls close(messageChan), after cancelling a running producer.
Close ==
    /\ ~panicked
    /\ pc["main"] = "ready"
    /\ ~closed
    /\ pc["timer"] = "idle" \/ ctxDone
    /\ closed' = TRUE
    /\ UNCHANGED <<call, heap, subVars, mu, chbuf, ctxDone, ticker, ordVars, msgVars,
                   budgetVars, pc, loc, panicked, hist>>

\* ------------------------------------------------------- specification
Next ==
    \/ \E g \in Callers : GetCart(g)
    \/ \E g \in Callers : GetInterval(g)
    \/ SetCart("main")
    \/ SetInterval("main")
    \/ NewTicker
    \/ Tick
    \/ SelectDone
    \/ SelectTick
    \/ \E g \in Senders : Send(g)
    \/ \E g \in Receivers : Recv(g)
    \/ HandleMsg
    \/ GoSubscriptionTimer
    \/ GoOrderHandler
    \/ CallAccessor
    \/ CallAddCase
    \/ MainSend
    \/ MainRecv
    \/ Cancel
    \/ Close

Spec == Init /\ [][Next]_vars

\* Scheduling: a goroutine that can execute its next statement eventually
\* does, and a select whose ctx.Done() case is ready again and again
\* eventually takes it (the runtime picks among ready cases at random).
\* Nothing obliges main to begin another operation, nor time to pass.
Fairness ==
    /\ \A g \in Callers : WF_vars(GetCart(g)) /\ WF_vars(GetInterval(g))
    /\ WF_vars(SetCart("main"))
    /\ WF_vars(SetInterval("main"))
    /\ WF_vars(NewTicker)
    /\ WF_vars(SelectTick)
    /\ SF_vars(SelectDone)
    /\ \A g \in Senders : WF_vars(Send(g))
    /\ \A g \in Receivers : WF_vars(Recv(g))
    /\ WF_vars(HandleMsg)

FairSpec == Spec /\ Fairness

\* ------------------------------------------- the functions called alone
\* The tests of Cart and of ProcessPayment call the functions on their own,
\* with no goroutine running: the carts start as NewCart() makes them.
UnitInit ==
    /\ heap = [c \in CartRefs |-> NewCart]
    /\ cart = NilCart
    /\ interval = 1
    /\ mu = "free"
    /\ chbuf = <<>>
    /\ closed = FALSE
    /\ ctxDone = FALSE
    /\ ticker = [period |-> 0, ready |-> FALSE, stopped |-> FALSE]
    /\ ProcessedOrders = <<>>
    /\ pc = [g \in Goroutines |-> IF g = "main" THEN "ready" ELSE "idle"]
    /\ loc = [g \in Goroutines |-> NoValue]
    /\ panicked = FALSE
    /\ nTicks = 0
    /\ nMainSends = 0
    /\ nCalls = 0
    /\ sent = <<>>
    /\ nRecv = 0
    /\ nHandled = 0
    /\ nInvalid = 0
    /\ placed = <<>>
    /\ hist = InitHist
    /\ call = NoCall

\* Cases in all the carts together.
CasesAdded == Len(heap[1]) + Len(heap[2])

\* cart.AddCase(beerCase), for any cart and any *Case, nil included.
TestAddCase ==
    /\ ~panicked
    /\ CasesAdded < MaxCases
    /\ \E c \in CartRefs, k \in CasePointers :
         /\ heap' = [heap EXCEPT ![c] = AddCase(heap[c], k)]
         /\ call' = [op |-> "AddCase", cart |-> c, item |-> k]
    /\ UNCHANGED <<subVars, mu, chanVars, ctxDone, ticker, ordVars, msgVars,
                   budgetVars, pc, loc, panicked, hist>>

\* cart.Subtotal(), for any cart; a panic ends the process.
TestSubtotal ==
    /\ ~panicked
    /\ \E c \in CartRefs :
         LET res == Subtotal(heap[c])
         IN  /\ call' = [op |-> "Subtotal", cart |-> c, result |-> res]
             /\ panicked' = res.panic
    /\ UNCHANGED <<heap, subVars, mu, chanVars, ctxDone, ticker, ordVars,
                   msgVars, budgetVars, pc, loc, hist>>

\* ProcessPayment(ts.URL, total), for any outcome of the exchange.
TestProcessPayment ==
    /\ ~panicked
    /\ \E post \in Posts :
         call' = [op |-> "ProcessPayment", post |-> post,
                  result |-> ProcessPayment(post)]
    /\ UNCHANGED <<heap, subVars, mu, chanVars, ctxDone, ticker, ordVars,
                   msgVars, budgetVars, pc, loc, panicked, hist>>

UnitNext ==
    \/ TestAddCase
    \/ TestSubtotal
    \/ TestProcessPayment

UnitSpec == UnitInit /\ [][UnitNext]_vars

\* ------------------------------------------------ what the claims speak of
\* Cart-typed messages among the first k completed sends.
CartsIn(k) == Cardinality({i \in 1..k : sent[i].msg.type = "Cart"})

\* The cart pointers of the Cart-typed messages of s, in order.
CartsOf(s) ==
    LET sel == SelectSeq(s, LAMBDA e : e.msg.type = "Cart")
    IN  [i \in 1..Len(sel) |-> sel[i].msg.ref]

\* The dynamic types of the completed sends, in order.
TypesSent == [i \in 1..Len(sent) |-> sent[i].msg.type]

\* Completed sends of the timer loop.
TimerSent == Cardinality({i \in 1..Len(sent) : sent[i].from = "timer"})

\* ------------------------------------------------------------------ C1
\* C1: in every reachable state the length of ProcessedOrders is the number
\* of Cart-typed messages among those the handler has finished processing
\* (one append per Cart, none per other message), and PlaceOrder reports no
\* failure for the cart the handler is about to place.
C1_LogCountsHandledCarts ==
    /\ nHandled <= Len(sent)
    /\ Len(ProcessedOrders) = CartsIn(nHandled)
    /\ (pc["handler"] = "handle" /\ loc["handler"].type = "Cart")
         => PlaceOrder(ProcessedOrders, loc["handler"].ref).err = "nil"

\* Two carts and one malformed message have been processed.
C1_Witness ==
    /\ nHandled = 3
    /\ nInvalid = 1
    /\ Len(ProcessedOrders) = 2

\* ------------------------------------------------------------------ C2
\* C2: processing a malformed message leaves the log unchanged and the
\* handler in its loop; after a malformed message the handler has not
\* returned while the channel is open; and a Cart that main then sends is
\* eventually received, processed and found in the log at its place.
C2_MalformedNeverStopsHandler ==
    /\ [][(pc["handler"] = "handle" /\ loc["handler"].type # "Cart"
            /\ nHandled' # nHandled)
           => (ProcessedOrders' = ProcessedOrders /\ pc'["handler"] = "recv")]_vars
    /\ []((nInvalid > 0 /\ ~closed) => pc["handler"] \in {"recv", "handle"})
    /\ \A k \in 0..MaxMsgs, c \in CartRefs :
         (nInvalid > 0 /\ pc["main"] = "send" /\ loc["main"] = CartValue(c)
          /\ Len(sent) = k)
         ~> (/\ nHandled > k
             /\ sent[k + 1].msg = CartValue(c)
             /\ Len(ProcessedOrders) >= CartsIn(k + 1)
             /\ ProcessedOrders[CartsIn(k + 1)] = c)

\* A malformed message was processed and a cart sent after it is in the log.
C2_Witness ==
    /\ Len(sent) >= 2
    /\ sent[1].msg.type = "Case"
    /\ sent[2].msg.type = "Cart"
    /\ nHandled >= 2
    /\ ProcessedOrders = <<sent[2].msg.ref>>

\* ------------------------------------------------------------------ C3
\* C3: while the handler is the consumer, when the n-th send has completed
\* the first n-1 messages are fully processed: the log already holds, in
\* order, every Cart among them; so the sender of Cart, Cart, malformed
\* finds a log of length exactly 2.
C3_EarlierMessagesProcessed ==
    pc["handler"] # "idle" =>
      /\ nHandled >= Len(sent) - 1
      /\ Len(ProcessedOrders) >= CartsIn(Len(sent) - 1)
      /\ \A j \in 1..CartsIn(Len(sent) - 1) :
           ProcessedOrders[j] = CartsOf(SubSeq(sent, 1, Len(sent) - 1))[j]
      /\ (TypesSent = <<"Cart", "Cart", "Case">> /\ pc["main"] # "send")
           => Len(ProcessedOrders) = 2

\* The third send (the malformed message) has just completed.
C3_Witness ==
    /\ TypesSent = <<"Cart", "Cart", "Case">>
    /\ pc["main"] = "ready"
    /\ pc["handler"] = "handle"
    /\ Len(ProcessedOrders) = 2

\* Goroutine g runs no more: its function has returned, or an unrecovered
\* panic has ended the process and every goroutine with it.
Terminated(g) == pc[g] = "done" \/ panicked

\* ------------------------------------------------------------------ C4
\* C4: each message of the timer loop carries the cart read by that tick's
\* GetCart, and a receiver that has got a message and then completes
\* SetCart(c2) receives c2 as the very next message (what
\* TestStartSubscriptionTimer asserts).
C4_NextMessageAfterSetCart ==
    /\ pc["timer"] \in {"GetCart.Unlock", "send"}
         => loc["timer"] = CartValue(hist.lastRead)
    /\ (pc["handler"] = "idle" /\ hist.setAt >= 1 /\ hist.setVal \in CartRefs
          /\ Len(sent) > hist.setAt)
         => sent[hist.setAt + 1].msg = CartValue(hist.setVal)

\* main received cart1, stored cart2, and then received cart1 once more
\* (it had been read before the SetCart) and cart2 after it.
C4_Witness ==
    /\ pc["handler"] = "idle"
    /\ hist.setAt = 1
    /\ hist.setVal = 2
    /\ Len(sent) = 3
    /\ sent[1].msg = CartValue(1)
    /\ sent[2].msg = CartValue(1)
    /\ sent[3].msg = CartValue(2)

\* ------------------------------------------------------------------ C5
\* C5 as claimed: once the context is cancelled the timer loop completes no
\* further send.
C5_NoSendAfterCancel == [][ctxDone => TimerSent' = TimerSent]_vars

\* C5, amended: the ctx.Done() case is taken only after cancellation, and
\* once it is taken the loop has returned and stopped its ticker, and reads
\* no cart and completes no send any more.
C5_NoSendAfterDoneCase ==
    /\ [](hist.doneTaken => (ctxDone /\ pc["timer"] = "done" /\ ticker.stopped))
    /\ [][hist.doneTaken
           => (TimerSent' = TimerSent /\ hist.nReads' = hist.nReads)]_vars

\* The loop returned after sending, leaving a delivered tick unsent.
C5_Witness ==
    /\ hist.doneTaken
    /\ pc["timer"] = "done"
    /\ TimerSent >= 1
    /\ ticker.ready

\* ------------------------------------------------------------------ C6
\* C6 as claimed: after cancellation a started timer loop eventually runs
\* no more, whether or not anything receives from the channel.
C6_CancelledTimerTerminates ==
    (ctxDone /\ pc["timer"] # "idle") ~> Terminated("timer")

\* ------------------------------------------------------------------ C7
\* C7: a started handler runs on while the channel is open, whether or not
\* the context is cancelled, the timer loop has returned or a malformed
\* message has arrived; and once the channel is closed it eventually runs
\* no more.
C7_HandlerTerminatesIffClosed ==
    /\ [](pc["handler"] = "done" => closed)
    /\ []((pc["handler"] # "idle" /\ ~closed)
           => pc["handler"] \in {"recv", "handle"})
    /\ (closed /\ pc["handler"] # "idle") ~> Terminated("handler")

\* The handler loop has returned on the closed channel; before that it had
\* outlived the cancellation and the return of the timer loop.
C7_Witness ==
    /\ pc["handler"] = "done"
    /\ pc["timer"] = "done"
    /\ closed
    /\ ctxDone
    /\ Len(ProcessedOrders) >= 1

\* ------------------------------------------------------------------ C8
\* C8: in every reachable state ProcessedOrders is the sequence of carts of
\* the Cart-typed messages of a prefix of the completed sends, in send
\* order, and every step leaves the log as it is or appends one entry at
\* its end.
C8_LogIsCartsOfSentPrefix ==
    /\ [](\E k \in 0..Len(sent) :
            /\ Len(ProcessedOrders) = CartsIn(k)
            /\ \A j \in 1..CartsIn(k) :
                 ProcessedOrders[j] = CartsOf(SubSeq(sent, 1, k))[j])
    /\ [][\/ ProcessedOrders' = ProcessedOrders
          \/ /\ Len(ProcessedOrders') = Len(ProcessedOrders) + 1
             /\ SubSeq(ProcessedOrders', 1, Len(ProcessedOrders)) = ProcessedOrders]_vars

\* Two different carts with a malformed message between them are logged in
\* the order sent.
C8_Witness ==
    /\ TypesSent = <<"Cart", "Case", "Cart">>
    /\ sent[1].msg.ref # sent[3].msg.ref
    /\ ProcessedOrders = <<sent[1].msg.ref, sent[3].msg.ref>>

\* ------------------------------------------------------------------ C9
\* C9: every completed send is a completed receive and nothing is buffered;
\* the timer loop has at most one cart read and not yet received, and when
\* it calls GetCart for a further tick every cart it read before has been
\* received.
C9_RendezvousThrottlesProducer ==
    /\ Len(sent) = nRecv
    /\ chbuf = <<>>
    /\ pc["timer"] # "idle" => (hist.nReads - nRecv) \in {0, 1}
    /\ pc["timer"] \in {"GetCart.Lock", "GetCart.return"} => nRecv = hist.nReads

\* The producer is stalled in its send after an earlier message was taken,
\* with the next tick already waiting.
C9_Witness ==
    /\ pc["timer"] = "send"
    /\ nRecv >= 1
    /\ hist.nReads = nRecv + 1
    /\ ticker.ready

\* ----------------------------------------------------------------- C10
\* C10 as claimed: every cart the Subscription emitted and the handler
\* appended to ProcessedOrders has the line items it had when it was placed,
\* whatever AddCase is called later.
C10_ProcessedOrdersAreSnapshots ==
    pc["timer"] # "idle" =>
      \A i \in 1..Len(ProcessedOrders) : CasesOf(ProcessedOrders[i]) = placed[i]

\* ----------------------------------------------------------------- C11
\* The sum of the price fields of non-nil cases, from the last case back.
RECURSIVE SumOfPrices(_)
SumOfPrices(cases) ==
    IF Len(cases) = 0 THEN 0
    ELSE cases[Len(cases)].Price
           + SumOfPrices(SubSeq(cases, 1, Len(cases) - 1))

HasNil(cases) == \E i \in 1..Len(cases) : cases[i] = NilCase

\* C11: after any sequence of AddCase calls on new carts, Subtotal()
\* returns the sum of the price fields of the cases added (0 for a cart
\* with no cases).
C11_SubtotalIsSumOfPrices ==
    call.op = "Subtotal" =>
      /\ ~call.result.panic
      /\ call.result.subtotal = SumOfPrices(heap[call.cart])

\* Subtotal() was called on a cart to which a case and then the nil case
\* had been added, and panicked instead of returning a sum.
C11_Witness ==
    /\ call.op = "Subtotal"
    /\ heap[call.cart] = <<CaseDuvel, NilCase>>
    /\ HasNil(heap[call.cart])
    /\ call.result.panic
    /\ panicked

\* ----------------------------------------------------------------- C12
\* C12: before any call the carts made by NewCart have zero cases; AddCase
\* of any item, the nil case included, on any cart built so far gives that
\* cart one case more, the new item last and the earlier cases as they were
\* and in their order; and every step that changes a cart is such an
\* AddCase, which raises no panic and leaves the other cart alone.
C12_AddCaseAppendsOne ==
    /\ [](call = NoCall => \A c \in CartRefs : Len(heap[c]) = 0)
    /\ [](\A c \in CartRefs, k \in CasePointers :
            LET after == AddCase(heap[c], k)
            IN  /\ Len(after) = Len(heap[c]) + 1
                /\ after[Len(after)] = k
                /\ SubSeq(after, 1, Len(heap[c])) = heap[c])
    /\ [][heap' # heap =>
            /\ call'.op = "AddCase"
            /\ ~panicked'
            /\ Len(heap'[call'.cart]) = Len(heap[call'.cart]) + 1
            /\ heap'[call'.cart][Len(heap'[call'.cart])] = call'.item
            /\ SubSeq(heap'[call'.cart], 1, Len(heap[call'.cart]))
                 = heap[call'.cart]
            /\ \A d \in CartRefs \ {call'.cart} : heap'[d] = heap[d]]_vars

\* The nil case has just been added after two different cases, which are
\* still first and second.
C12_Witness ==
    /\ call.op = "AddCase"
    /\ call.item = NilCase
    /\ heap[call.cart] = <<CaseDuvel, CaseLabatt, NilCase>>

\* ----------------------------------------------------------------- C13
\* The number a sequence of decimal digits stands for.
RECURSIVE Atoi(_)
Atoi(digits) ==
    IF digits = <<>> THEN 0
    ELSE 10 * Atoi(SubSeq(digits, 1, Len(digits) - 1)) + digits[Len(digits)]

\* C13: when http.Post fails, ProcessPayment returns a nil body and that
\* very error; when the exchange completes with a status code below 400 it
\* returns the response body unchanged (non-nil, even if empty) and no
\* error; when the status code is 400 or above it returns a nil body and
\* the error "payment server error: %d" whose digits read as that code.
C13_ProcessPaymentOutcomes ==
    call.op = "ProcessPayment" =>
      LET post == call.post
          res == call.result
      IN  /\ post.err # NoError
               => res = [body |-> NilBytes, err |-> post.err]
          /\ (post.err = NoError /\ post.StatusCode < 400
                /\ post.readErr = NoError)
               => res = [body |-> [nil |-> FALSE, bytes |-> post.Body],
                         err |-> NoError]
          /\ (post.err = NoError /\ post.StatusCode >= 400)
               => /\ res.body = NilBytes
                  /\ res.err.text = "payment server error: %d"
                  /\ Atoi(res.err.digits) = post.StatusCode
                  /\ res.err # NoError

\* The payment server answered 400 with a body: nil body and an error that
\* carries 400.
C13_Witness ==
    /\ call.op = "ProcessPayment"
    /\ call.post.err = NoError
    /\ call.post.StatusCode = 400
    /\ call.post.Body # <<>>
    /\ call.result.body = NilBytes
    /\ call.result.err.digits = <<4, 0, 0>>

\* ----------------------------------------------------------------- C14
\* C14: GetInterval returns what the interval field holds when it reads it,
\* and the field holds what SetInterval assigned; the timer loop calls
\* GetInterval only before its ticker exists and creates the ticker with
\* the value that one call returned; once the ticker exists its period
\* never changes, whatever SetInterval stores in the field afterwards.
C14_IntervalReadOnceAtCreation ==
    /\ [](\A g \in Callers :
            pc[g] = "GetInterval.Unlock" => loc[g] = DurationValue(interval))
    /\ [](pc["main"] = "SetInterval.Unlock" => interval = loc["main"].ref)
    /\ [](pc["timer"] \in {"GetInterval.Lock", "GetInterval.return",
                            "GetInterval.Unlock", "newTicker"}
            <=> (pc["timer"] # "idle" /\ ticker.period = 0))
    /\ [][pc["timer"] = "newTicker" /\ pc'["timer"] # "newTicker"
            => ticker'.period = loc["timer"].ref]_vars
    /\ [][ticker.period # 0 => ticker'.period = ticker.period]_vars

\* SetInterval(2) has completed while the loop runs on a ticker created
\* with interval 1: the field holds 2, the ticker still has period 1 and
\* the loop, which has sent a cart, is back at its select.
C14_Witness ==
    /\ pc["main"] = "ready"
    /\ nCalls = 1
    /\ interval = 2
    /\ ticker.period = 1
    /\ ~ticker.stopped
    /\ TimerSent >= 1
    /\ pc["timer"] = "select"

\* ----------------------------------------------------------------- C15
\* Goroutine g is between the Lock and the Unlock of an accessor.
InSection(g) ==
    pc[g] \in {"GetCart.return", "GetCart.Unlock", "SetCart.assign",
               "SetCart.Unlock", "GetInterval.return", "GetInterval.Unlock",
               "SetInterval.assign", "SetInterval.Unlock"}

\* Goroutine g is at a statement that reads or writes cart or interval.
AtFieldAccess(g) ==
    pc[g] \in {"GetCart.return", "SetCart.assign", "GetInterval.return",
               "SetInterval.assign"}

\* C15: at most one goroutine is inside a lock-guarded section, and it is
\* the holder of the mutex; a goroutine at a read or a write of cart or
\* interval holds the mutex, and the fields change only in a step of the
\* holder; the value a GetCart is about to return is the cart field, which
\* is the initial cart before any SetCart has assigned and the argument of
\* the latest SetCart assignment after; and the value the timer loop got
\* from GetCart stays the one it read.
C15_AccessorsAreExclusive ==
    /\ [](Cardinality({g \in Callers : InSection(g)}) <= 1)
    /\ [](\A g \in Callers : InSection(g) <=> mu = g)
    /\ [](\A g \in Callers : AtFieldAccess(g) => mu = g)
    /\ [][(cart' # cart \/ interval' # interval)
            => (mu # "free" /\ AtFieldAccess(mu) /\ pc'[mu] # pc[mu])]_vars
    /\ [](\A g \in Callers :
            pc[g] = "GetCart.Unlock" => loc[g] = CartValue(cart))
    /\ [](IF hist.setAt = -1 THEN cart = 1
          ELSE pc["main"] # "SetCart.assign" => cart = hist.setVal)
    /\ [](pc["timer"] = "send" => loc["timer"] = CartValue(hist.lastRead))

\* The timer loop waits for the mutex at the Lock of GetCart while main is
\* inside SetCart, its write done and the mutex not yet released.
C15_Witness ==
    /\ pc["timer"] = "GetCart.Lock"
    /\ pc["main"] = "SetCart.Unlock"
    /\ mu = "main"
    /\ cart = 2

\* ----------------------------------------------------------------- C16
\* Both loops run on the channel and nobody has cancelled or closed.
Wired ==
    /\ pc["timer"] # "idle"
    /\ pc["handler"] # "idle"
    /\ ~ctxDone
    /\ ~closed

\* A statement of a goroutine that the scheduler has to run.
GoroutineStep ==
    \/ \E g \in Callers : GetCart(g) \/ GetInterval(g)
    \/ SetCart("main")
    \/ SetInterval("main")
    \/ NewTicker
    \/ SelectTick
    \/ \E g \in Senders : Send(g)
    \/ HandleMsg

\* C16: with both loops running on the channel, in a behaviour with no
\* cancellation and no close, under fair scheduling the cart of the n-th
\* tick the ticker delivers is eventually the n-th entry of the log; the
\* log then holds exactly the carts sent, in order; and as long as a
\* delivered tick is not in the log yet some goroutine can take a step
\* (no deadlock); and once the ticker exists nothing panics.
C16_EveryTickIsProcessed ==
    /\ \A n \in 1..MaxMsgs :
         (Wired /\ nTicks >= n)
           ~> (\/ ctxDone
               \/ closed
               \/ /\ Len(ProcessedOrders) >= n
                  /\ Len(sent) >= n
                  /\ sent[n].from = "timer"
                  /\ ProcessedOrders[n] = sent[n].msg.ref)
    /\ []((Wired /\ Len(ProcessedOrders) < nTicks) => ENABLED GoroutineStep)
    /\ []((Wired /\ ticker.period > 0) => ~panicked)

\* Every tick delivered has been sent by the timer loop and appended by
\* the handler, which waits for more.
C16_Witness ==
    /\ Wired
    /\ nTicks = MaxMsgs
    /\ Len(ProcessedOrders) = MaxMsgs
    /\ \A i \in 1..MaxMsgs :
         sent[i].from = "timer" /\ ProcessedOrders[i] = sent[i].msg.ref
    /\ pc["handler"] = "recv"
    /\ pc["timer"] = "select"

\* ----------------------------------------------------------------- C17
\* main is inside a call of one of the four accessors.
InAccessor ==
    pc["main"] \in {"GetCart.Lock", "GetCart.return", "GetCart.Unlock",
                    "SetCart.Lock", "SetCart.assign", "SetCart.Unlock",
                    "GetInterval.Lock", "GetInterval.return",
                    "GetInterval.Unlock", "SetInterval.Lock",
                    "SetInterval.assign", "SetInterval.Unlock"}

\* C17: the timer loop does not hold the mutex while it creates its ticker,
\* waits in its select, is at its channel send or has returned; and under
\* fair scheduling every accessor call main begins returns, as long as the
\* process lives, whether or not anything receives from the channel.
C17_LockNeverHeldWhileBlocked ==
    /\ [](pc["timer"] \in {"idle", "newTicker", "select", "send", "done"}
            => mu # "timer")
    /\ InAccessor ~> (pc["main"] = "ready" \/ panicked)

\* The producer is stalled in its send of cart1 with no consumer started,
\* and main's SetCart(cart2) has taken the mutex and completed meanwhile.
C17_Witness ==
    /\ pc["timer"] = "send"
    /\ pc["handler"] = "idle"
    /\ nRecv = 0
    /\ loc["timer"] = CartValue(1)
    /\ pc["main"] = "ready"
    /\ nCalls = 1
    /\ cart = 2
    /\ mu = "free"

\* ----------------------------------------------------------------- C18
\* C18 as claimed: once main has cancelled the context and then closed the
\* channel, the timer loop is not at its channel send, neither blocked in
\* it nor ended in it by the panic of a send on the closed channel.
C18_NoSendOnClosedChannel ==
    (ctxDone /\ closed) => pc["timer"] # "send"

\* ----------------------------------------------------------------- C19
\* C19: every message the timer loop sends or is about to send is
\* Cart-typed, the nil cart included; and with the timer loop as the only
\* sender and the handler as the receiver, every message the handler holds
\* is Cart-typed, the handler has never taken the invalid-message branch,
\* the log has one entry per message handled, namely the cart sent, and
\* every handling step appends exactly one entry.
C19_SubscriptionSendsOnlyCarts ==
    /\ [](\A i \in 1..Len(sent) :
            sent[i].from = "timer" => sent[i].msg.type = "Cart")
    /\ [](pc["timer"] = "send" => loc["timer"].type = "Cart")
    /\ []((pc["timer"] # "idle" /\ pc["handler"] # "idle") =>
            /\ pc["handler"] = "handle" => loc["handler"].type = "Cart"
            /\ nInvalid = 0
            /\ Len(ProcessedOrders) = nHandled
            /\ nHandled \in {nRecv, nRecv - 1}
            /\ \A i \in 1..nHandled : ProcessedOrders[i] = sent[i].msg.ref)
    /\ [][(pc["timer"] # "idle" /\ nHandled' # nHandled)
            => Len(ProcessedOrders') = Len(ProcessedOrders) + 1]_vars

\* SetCart(nil) was stored; the loop sent cart1 and then the nil cart, and
\* the handler appended both without taking the invalid-message branch.
C19_Witness ==
    /\ pc["timer"] # "idle"
    /\ cart = NilCart
    /\ Len(sent) = 2
    /\ sent[2] = [from |-> "timer", msg |-> CartValue(NilCart)]
    /\ ProcessedOrders = <<1, NilCart>>
    /\ nInvalid = 0

====
